---- MODULE Spec2Model ----
(***************************************************************************)
(* URL parser / comparator (src/src/App.tsx).                              *)
(*                                                                         *)
(* Strings are TLA+ strings; a character is a string of length 1.  The     *)
(* platform facilities the code calls (URL, URLSearchParams, plain object  *)
(* property order, Array.prototype.sort, String.prototype.localeCompare)   *)
(* are modelled by what they do on the printable ASCII characters below.   *)
(***************************************************************************)
EXTENDS Integers, Sequences, FiniteSets, TLC

VARIABLES
    urls,        \* App state: string[]                       (App.tsx:80)
    notes,       \* App state: string[]                       (App.tsx:84)
    parsed,      \* App state: (ParsedURL | null)[]           (App.tsx:81)
    search,      \* window.location.search                    (App.tsx:47,119)
    effects,     \* effects of the last commit still to run   (App.tsx:86-120)
    notesQ,      \* state update queued by setNotes in an effect (App.tsx:101)
    analytics,   \* main.tsx export: "absent" | "ok" | "failing"
    perf,        \* main.tsx export: performance trace enabled
    raw,         \* harness: the string handed to parseUrl
    result,      \* harness: what parseUrl returned
    allParams,   \* harness: parameter maps under comparison  (App.tsx:181)
    verdict,     \* harness: allSame and getDifferentParamKeys()
    slots,       \* harness: slot list handed to the codec
    decoded,     \* harness: getInitialUrls()/getInitialNotes() of the encoding
    pc           \* harness: position of the running specification

vars == <<urls, notes, parsed, search, effects, notesQ, analytics, perf,
          raw, result, allParams, verdict, slots, decoded, pc>>

-----------------------------------------------------------------------------
(* Characters *)

\* Printable ASCII in code point order, in four runs (34, 92 and 96 left out).
AsciiRunA == " !"
AsciiRunB == "#$%&'()*+,-./0123456789:;<=>?@ABCDEFGHIJKLMNOPQRSTUVWXYZ["
AsciiRunC == "]^_"
AsciiRunD == "abcdefghijklmnopqrstuvwxyz{|}~"

CharAt(s, i) == SubSeq(s, i, i)

CharsOf(s) == {CharAt(s, i) : i \in 1..Len(s)}

IndexIn(s, c) == CHOOSE i \in 1..Len(s) : CharAt(s, i) = c

Alphabet ==
    CharsOf(AsciiRunA) \cup CharsOf(AsciiRunB) \cup CharsOf(AsciiRunC)
        \cup CharsOf(AsciiRunD)

CodePointTable ==
    [c \in Alphabet |->
        IF c \in CharsOf(AsciiRunA) THEN 31 + IndexIn(AsciiRunA, c)
        ELSE IF c \in CharsOf(AsciiRunB) THEN 34 + IndexIn(AsciiRunB, c)
        ELSE IF c \in CharsOf(AsciiRunC) THEN 92 + IndexIn(AsciiRunC, c)
        ELSE 96 + IndexIn(AsciiRunD, c)]

CodePoint(c) == CodePointTable[c]

CharOfCode(n) == CHOOSE c \in Alphabet : CodePointTable[c] = n

Digits == CharsOf("0123456789")
LowerAlpha == CharsOf("abcdefghijklmnopqrstuvwxyz")
UpperAlpha == CharsOf("ABCDEFGHIJKLMNOPQRSTUVWXYZ")
AsciiAlpha == LowerAlpha \cup UpperAlpha
AsciiAlnum == AsciiAlpha \cup Digits
HexDigits == Digits \cup CharsOf("ABCDEFabcdef")

HexUpper == "0123456789ABCDEF"

HexValue(c) ==
    IF c \in Digits THEN CodePoint(c) - 48
    ELSE IF c \in UpperAlpha THEN CodePoint(c) - 55
    ELSE CodePoint(c) - 87

\* Index of the first occurrence of character c in s, 0 when there is none.
IndexOf(s, c) ==
    IF \E i \in 1..Len(s) : CharAt(s, i) = c
    THEN CHOOSE i \in 1..Len(s) :
            CharAt(s, i) = c /\ \A j \in 1..(i - 1) : CharAt(s, j) # c
    ELSE 0

\* Index of the first character of s that is in set cs, Len(s)+1 when none.
FirstOf(s, cs) ==
    IF \E i \in 1..Len(s) : CharAt(s, i) \in cs
    THEN CHOOSE i \in 1..Len(s) :
            CharAt(s, i) \in cs /\ \A j \in 1..(i - 1) : CharAt(s, j) \notin cs
    ELSE Len(s) + 1

From(s, i) == SubSeq(s, i, Len(s))

\* Code point (lexicographic) order on strings.
RECURSIVE LexLess(_, _)
LexLess(a, b) ==
    IF Len(b) = 0 THEN FALSE
    ELSE IF Len(a) = 0 THEN TRUE
    ELSE IF Head(a) = Head(b) THEN LexLess(Tail(a), Tail(b))
    ELSE CodePoint(Head(a)) < CodePoint(Head(b))

\* pieces[lo] \o ... \o pieces[hi], halving the range.
RECURSIVE Concat(_, _, _)
Concat(pieces, lo, hi) ==
    IF lo > hi THEN ""
    ELSE IF lo = hi THEN pieces[lo]
    ELSE Concat(pieces, lo, (lo + hi) \div 2)
         \o Concat(pieces, ((lo + hi) \div 2) + 1, hi)

Join(pieces) == Concat(pieces, 1, Len(pieces))

LowerChar(c) == IF c \in UpperAlpha THEN CharOfCode(CodePoint(c) + 32) ELSE c

ToLower(s) == Join([i \in 1..Len(s) |-> LowerChar(CharAt(s, i))])

\* Pieces of s between occurrences of character c (String.prototype.split).
RECURSIVE SplitOn(_, _)
SplitOn(s, c) ==
    LET i == IndexOf(s, c)
    IN  IF i = 0 THEN <<s>>
        ELSE <<SubSeq(s, 1, i - 1)>> \o SplitOn(From(s, i + 1), c)

-----------------------------------------------------------------------------
(* application/x-www-form-urlencoded: URLSearchParams                       *)
(* A URLSearchParams object is its list of name-value pairs [k, v].         *)

PlusToSpace(s) ==
    Join([i \in 1..Len(s) |-> IF CharAt(s, i) = "+" THEN " " ELSE CharAt(s, i)])

\* A "%" followed by two hexadecimal digits; two escapes never overlap.
IsEscapeAt(s, i) ==
    /\ i >= 1
    /\ i + 2 <= Len(s)
    /\ CharAt(s, i) = "%"
    /\ CharAt(s, i + 1) \in HexDigits
    /\ CharAt(s, i + 2) \in HexDigits

PercentDecode(s) ==
    Join([i \in 1..Len(s) |->
            IF IsEscapeAt(s, i)
            THEN CharOfCode(16 * HexValue(CharAt(s, i + 1))
                            + HexValue(CharAt(s, i + 2)))
            ELSE IF IsEscapeAt(s, i - 1) \/ IsEscapeAt(s, i - 2) THEN ""
            ELSE CharAt(s, i)])

FormDecode(s) == PercentDecode(PlusToSpace(s))

FormPair(piece) ==
    LET i == IndexOf(piece, "=")
    IN  IF i = 0 THEN [k |-> FormDecode(piece), v |-> ""]
        ELSE [k |-> FormDecode(SubSeq(piece, 1, i - 1)),
              v |-> FormDecode(From(piece, i + 1))]

\* The urlencoded parser: split on "&", skip empty pieces, split each piece
\* at its first "=", decode "+" and percent escapes.
FormParse(q) ==
    LET pieces == SelectSeq(SplitOn(q, "&"), LAMBDA p : Len(p) > 0)
    IN  [i \in 1..Len(pieces) |-> FormPair(pieces[i])]

\* new URLSearchParams(init): a leading "?" of the init string is dropped.
NewURLSearchParams(init) ==
    FormParse(IF Len(init) > 0 /\ Head(init) = "?" THEN Tail(init) ELSE init)

FormSafe == AsciiAlnum \cup CharsOf("*-._")

FormEncodeChar(c) ==
    IF c \in FormSafe THEN c
    ELSE IF c = " " THEN "+"
    ELSE "%" \o CharAt(HexUpper, (CodePoint(c) \div 16) + 1)
             \o CharAt(HexUpper, (CodePoint(c) % 16) + 1)

FormEncode(s) == Join([i \in 1..Len(s) |-> FormEncodeChar(CharAt(s, i))])

\* URLSearchParams.prototype.toString
RECURSIVE ParamsToString(_)
ParamsToString(list) ==
    IF Len(list) = 0 THEN ""
    ELSE FormEncode(list[1].k) \o "=" \o FormEncode(list[1].v)
         \o (IF Len(list) = 1 THEN "" ELSE "&" \o ParamsToString(Tail(list)))

\* URLSearchParams.prototype.get: <<>> is null, <<v>> the first value of name.
ParamsGet(list, name) ==
    IF \E i \in 1..Len(list) : list[i].k = name
    THEN LET i == CHOOSE i \in 1..Len(list) :
                    list[i].k = name /\ \A j \in 1..(i - 1) : list[j].k # name
         IN  <<list[i].v>>
    ELSE <<>>

\* URLSearchParams.prototype.set: the first pair of that name takes the value
\* and the others go; with no such pair, one is appended.
ParamsSet(list, name, value) ==
    IF \E i \in 1..Len(list) : list[i].k = name
    THEN LET first == CHOOSE i \in 1..Len(list) :
                    list[i].k = name /\ \A j \in 1..(i - 1) : list[j].k # name
             kept == {i \in 1..Len(list) : list[i].k # name \/ i = first}
             at(n) == CHOOSE i \in kept : Cardinality({j \in kept : j < i}) = n - 1
         IN  [n \in 1..Cardinality(kept) |->
                IF at(n) = first THEN [k |-> name, v |-> value]
                ELSE list[at(n)]]
    ELSE Append(list, [k |-> name, v |-> value])

-----------------------------------------------------------------------------
(* Plain JavaScript objects used as Record<string, string>                  *)
(* An object is the list of its own properties [k, v] in the order          *)
(* Object.keys / Object.entries enumerate them: array-index keys first, in  *)
(* ascending numeric order, then the other string keys in insertion order.  *)

\* Order of canonical decimal strings by the number they write.
NumericLess(a, b) ==
    \/ Len(a) < Len(b)
    \/ Len(a) = Len(b) /\ LexLess(a, b)

\* 2^32 - 2, the largest array index.
MaxArrayIndex == "4294967294"

\* A canonical numeric string not above 2^32 - 2.
IsArrayIndex(k) ==
    /\ Len(k) > 0
    /\ \A i \in 1..Len(k) : CharAt(k, i) \in Digits
    /\ (Len(k) = 1 \/ Head(k) # "0")
    /\ ~NumericLess(MaxArrayIndex, k)

ObjectKeys(o) == [i \in 1..Len(o) |-> o[i].k]

HasOwnProperty(o, key) == \E i \in 1..Len(o) : o[i].k = key

\* o[key]: <<v>> for an own property.  An inherited property of
\* Object.prototype is never a string, and reads as <<>> like undefined.
ObjGet(o, key) ==
    IF HasOwnProperty(o, key)
    THEN <<o[CHOOSE i \in 1..Len(o) : o[i].k = key].v>>
    ELSE <<>>

ProtoKey == "__proto__"

\* Where a new own property key lands in the enumeration order of o.
InsertAt(o, key) ==
    IF IsArrayIndex(key)
    THEN 1 + Cardinality({i \in 1..Len(o) :
                /\ IsArrayIndex(o[i].k)
                /\ NumericLess(o[i].k, key)})
    ELSE Len(o) + 1

\* o[key] = value on an object literal.  Assigning a string to __proto__
\* reaches the accessor inherited from Object.prototype, which ignores a
\* value that is neither an object nor null: no own property is created.
ObjSet(o, key, value) ==
    IF key = ProtoKey THEN o
    ELSE IF HasOwnProperty(o, key)
    THEN [i \in 1..Len(o) |->
            IF o[i].k = key THEN [k |-> key, v |-> value] ELSE o[i]]
    ELSE LET at == InsertAt(o, key)
         IN  SubSeq(o, 1, at - 1) \o <<[k |-> key, v |-> value]>>
                \o SubSeq(o, at, Len(o))

-----------------------------------------------------------------------------
(* String.prototype.localeCompare and Array.prototype.sort                  *)

\* Collation order of the characters query keys are drawn from: the
\* underscore (punctuation) sorts before the digits, the digits before the
\* letters.
CollationOrder == "_0123456789abcdefghijklmnopqrstuvwxyz"

CollationWeight(c) == IndexIn(CollationOrder, c)

RECURSIVE LocaleCompare(_, _)
LocaleCompare(a, b) ==
    IF Len(a) = 0 /\ Len(b) = 0 THEN 0
    ELSE IF Len(a) = 0 THEN -1
    ELSE IF Len(b) = 0 THEN 1
    ELSE IF Head(a) = Head(b) THEN LocaleCompare(Tail(a), Tail(b))
    ELSE IF CollationWeight(Head(a)) < CollationWeight(Head(b)) THEN -1
    ELSE 1

\* The comparator of parseUrl: ([a], [b]) => a.localeCompare(b)
CompareEntries(x, y) == LocaleCompare(x.k, y.k)

\* One pass of a stable insertion: e goes behind every element that does
\* not compare greater than it.
InsertSorted(sorted, e) ==
    LET n == Cardinality({i \in 1..Len(sorted) : CompareEntries(sorted[i], e) <= 0})
    IN  SubSeq(sorted, 1, n) \o <<e>> \o SubSeq(sorted, n + 1, Len(sorted))

\* Array.prototype.sort with the comparator above; the sort is stable.
RECURSIVE SortEntries(_)
SortEntries(entries) ==
    IF Len(entries) = 0 THEN <<>>
    ELSE InsertSorted(SortEntries(SubSeq(entries, 1, Len(entries) - 1)),
                      entries[Len(entries)])

-----------------------------------------------------------------------------
(* new URL(url), with no base                                               *)
(* The parser is modelled for scheme, authority (userinfo, host, port),     *)
(* path, query and fragment over the ASCII characters above; host name      *)
(* normalisation beyond lower-casing (IDNA, numeric IPv4 hosts, IPv6),      *)
(* dot-segment removal and the file scheme are not modelled.                *)

RECURSIVE TrimLeft(_)
TrimLeft(s) == IF Len(s) > 0 /\ Head(s) = " " THEN TrimLeft(Tail(s)) ELSE s

RECURSIVE TrimRight(_)
TrimRight(s) ==
    IF Len(s) > 0 /\ CharAt(s, Len(s)) = " "
    THEN TrimRight(SubSeq(s, 1, Len(s) - 1)) ELSE s

SchemeChars == AsciiAlnum \cup CharsOf("+-.")

\* Position of the ":" ending a scheme at the start of s, 0 when s has none.
SchemeEnd(s) ==
    LET i == IndexOf(s, ":")
    IN  IF /\ i > 1
           /\ Head(s) \in AsciiAlpha
           /\ \A j \in 2..(i - 1) : CharAt(s, j) \in SchemeChars
        THEN i ELSE 0

SpecialSchemes == {"http", "https", "ws", "wss", "ftp"}

DefaultPort(scheme) ==
    IF scheme \in {"http", "ws"} THEN "80"
    ELSE IF scheme \in {"https", "wss"} THEN "443"
    ELSE IF scheme = "ftp" THEN "21"
    ELSE ""

RECURSIVE SkipSlashes(_)
SkipSlashes(s) ==
    IF Len(s) > 0 /\ Head(s) = "/" THEN SkipSlashes(Tail(s)) ELSE s

HostChars == AsciiAlnum \cup CharsOf("-._~!$&'()*+,;=")

LastIndexOf(s, c) ==
    IF \E i \in 1..Len(s) : CharAt(s, i) = c
    THEN CHOOSE i \in 1..Len(s) :
            CharAt(s, i) = c /\ \A j \in (i + 1)..Len(s) : CharAt(s, j) # c
    ELSE 0

RECURSIVE StripLeadingZeros(_)
StripLeadingZeros(s) ==
    IF Len(s) > 1 /\ Head(s) = "0" THEN StripLeadingZeros(Tail(s)) ELSE s

RECURSIVE DecimalValue(_)
DecimalValue(s) ==
    IF Len(s) = 0 THEN 0
    ELSE 10 * DecimalValue(SubSeq(s, 1, Len(s) - 1))
         + HexValue(CharAt(s, Len(s)))

MaxPort == 65535

\* URL.host of a host name and a port text, the default port left out.
ShownHost(name, port, scheme) ==
    IF port = "" \/ port = DefaultPort(scheme) THEN name
    ELSE name \o ":" \o port

HostAndPort(name, port, scheme) ==
    IF /\ \A i \in 1..Len(name) : CharAt(name, i) \in HostChars
       /\ \A i \in 1..Len(port) : CharAt(port, i) \in Digits
       /\ Len(port) <= 5
       /\ DecimalValue(port) <= MaxPort
       /\ (scheme \in SpecialSchemes => Len(name) > 0)
    THEN [ok |-> TRUE,
          host |-> ShownHost(name,
                             IF port = "" THEN "" ELSE StripLeadingZeros(port),
                             scheme)]
    ELSE [ok |-> FALSE, host |-> ""]

\* hp is the authority behind its userinfo, c the place of its first ":".
SplitPort(hp, c, scheme) ==
    HostAndPort(ToLower(IF c = 0 THEN hp ELSE SubSeq(hp, 1, c - 1)),
                IF c = 0 THEN "" ELSE From(hp, c + 1),
                scheme)

DropUserinfo(auth) == From(auth, LastIndexOf(auth, "@") + 1)

\* Host and port of an authority: [ok, host] with host as URL.host gives it.
ParseAuthority(auth, scheme) ==
    SplitPort(DropUserinfo(auth), IndexOf(DropUserinfo(auth), ":"), scheme)

\* The query percent-encode set, as far as the characters above reach it.
QueryEncodeChar(c, special) ==
    IF c = " " THEN "%20"
    ELSE IF c = "<" THEN "%3C"
    ELSE IF c = ">" THEN "%3E"
    ELSE IF c = "'" /\ special THEN "%27"
    ELSE c

QueryEncode(s, special) ==
    Join([i \in 1..Len(s) |-> QueryEncodeChar(CharAt(s, i), special)])

PathEncodeChar(c) ==
    IF c = " " THEN "%20"
    ELSE IF c = "<" THEN "%3C"
    ELSE IF c = ">" THEN "%3E"
    ELSE IF c = "{" THEN "%7B"
    ELSE IF c = "}" THEN "%7D"
    ELSE c

PathEncode(s) == Join([i \in 1..Len(s) |-> PathEncodeChar(CharAt(s, i))])

FailedURL == [ok |-> FALSE, protocol |-> "", host |-> "", pathname |-> "", query |-> ""]

\* A URL with an authority: auth is the parsed authority, path what follows.
WithAuthority(scheme, auth, path, query) ==
    IF ~auth.ok THEN FailedURL
    ELSE [ok |-> TRUE, protocol |-> scheme \o ":", host |-> auth.host,
          pathname |-> IF scheme \in SpecialSchemes /\ path = "" THEN "/"
                       ELSE PathEncode(path),
          query |-> query]

\* afterSl is the text behind the slashes that open the authority.
SplitAuthority(scheme, afterSl, a, query) ==
    WithAuthority(scheme, ParseAuthority(SubSeq(afterSl, 1, a - 1), scheme),
                  From(afterSl, a), query)

\* hier is the text between the scheme and the query.
Hierarchy(scheme, hier, query) ==
    IF scheme \in SpecialSchemes
    THEN SplitAuthority(scheme, SkipSlashes(hier),
                        FirstOf(SkipSlashes(hier), {"/"}), query)
    ELSE IF Len(hier) >= 2 /\ SubSeq(hier, 1, 2) = "//"
    THEN SplitAuthority(scheme, From(hier, 3), FirstOf(From(hier, 3), {"/"}), query)
    ELSE [ok |-> TRUE, protocol |-> scheme \o ":", host |-> "",
          pathname |-> IF Len(hier) > 0 /\ Head(hier) = "/"
                       THEN PathEncode(hier) ELSE hier,
          query |-> query]

\* rest is the text behind the scheme, the fragment dropped; q the place of
\* its first "?".
SplitQuery(scheme, rest, q) ==
    Hierarchy(scheme,
              IF q = 0 THEN rest ELSE SubSeq(rest, 1, q - 1),
              IF q = 0 THEN ""
              ELSE QueryEncode(From(rest, q + 1), scheme \in SpecialSchemes))

DropFragment(s) ==
    IF IndexOf(s, "#") = 0 THEN s ELSE SubSeq(s, 1, IndexOf(s, "#") - 1)

\* s is the trimmed input, e the place of the ":" ending its scheme.
AfterScheme(s, e, rest) ==
    IF e = 0 THEN FailedURL
    ELSE SplitQuery(ToLower(SubSeq(s, 1, e - 1)), rest, IndexOf(rest, "?"))

Trimmed(s) == AfterScheme(s, SchemeEnd(s), From(DropFragment(s), SchemeEnd(s) + 1))

\* [ok, protocol, host, pathname, query]; ok = FALSE is the TypeError the
\* constructor throws.
NewURL(url) == Trimmed(TrimRight(TrimLeft(url)))

-----------------------------------------------------------------------------
(* parseUrl, paramsEqual, getInitialUrls, getInitialNotes                   *)

NullResult ==
    [kind |-> "null", protocol |-> "", host |-> "", path |-> "", params |-> <<>>]

Thrown ==
    [kind |-> "throw", protocol |-> "", host |-> "", path |-> "", params |-> <<>>]

\* logEvent(analytics, "parse_url", ...) of a sink that is present.
LogEvent(sink) == IF sink = "failing" THEN "throw" ELSE "ok"

\* .forEach(([k, v]) => (params[k] = v)) from const params = {}
RECURSIVE AssignAll(_, _)
AssignAll(o, entries) ==
    IF Len(entries) = 0 THEN o
    ELSE AssignAll(ObjSet(o, entries[1].k, entries[1].v), Tail(entries))

\* String.prototype.replace(":", ""): the first ":" goes.
ReplaceColon(s) ==
    LET i == IndexOf(s, ":")
    IN  IF i = 0 THEN s ELSE SubSeq(s, 1, i - 1) \o From(s, i + 1)

\* The return statement of parseUrl, u being the URL object.
ParsedRecord(u) ==
    IF ~u.ok THEN Thrown
    ELSE [kind |-> "record",
          protocol |-> ReplaceColon(u.protocol),
          host |-> u.host,
          path |-> u.pathname,
          params |-> AssignAll(<<>>, SortEntries(FormParse(u.query)))]

\* The try block of parseUrl: the record it returns, or Thrown.
parseUrlTry(url, sink) ==
    IF sink # "absent" /\ LogEvent(sink) = "throw" THEN Thrown
    ELSE ParsedRecord(NewURL(url))

\* catch { return null; }
CatchNull(r) == IF r.kind = "throw" THEN NullResult ELSE r

\* parseUrl with the catch clause lost: what the try block throws escapes.
parseUrlNoCatch(url, sink) == parseUrlTry(url, sink)

parseUrl(url, sink) == CatchNull(parseUrlTry(url, sink))

\* paramsEqual with the comparison of the key counts lost.
paramsEqualNoLength(a, b) ==
    \A i \in 1..Len(ObjectKeys(a)) :
        ObjGet(b, ObjectKeys(a)[i]) = ObjGet(a, ObjectKeys(a)[i])

paramsEqual(a, b) ==
    LET aKeys == ObjectKeys(a)
        bKeys == ObjectKeys(b)
    IN  IF Len(aKeys) # Len(bKeys) THEN FALSE
        ELSE \A i \in 1..Len(aKeys) : ObjGet(b, aKeys[i]) = ObjGet(a, aKeys[i])

\* [ ... ].filter(Boolean) on results of URLSearchParams.get: null and the
\* empty string are falsy.
FilterBoolean(gets) ==
    LET kept == SelectSeq(gets, LAMBDA g : Len(g) = 1 /\ g[1] # "")
    IN  [i \in 1..Len(kept) |-> kept[i][1]]

\* [params.get(k1), params.get(k2), params.get(k3)].filter(Boolean)
GetAll(params, keys) ==
    FilterBoolean([i \in 1..Len(keys) |-> ParamsGet(params, keys[i])])

\* urls.length > 0 ? urls : [""]
OrOneEmpty(found) == IF Len(found) > 0 THEN found ELSE <<"">>

\* getInitialUrls with the fallback to one empty slot lost.
getInitialUrlsNoDefault(locationSearch) ==
    GetAll(NewURLSearchParams(locationSearch), <<"url1", "url2", "url3">>)

getInitialUrls(locationSearch) ==
    OrOneEmpty(GetAll(NewURLSearchParams(locationSearch),
                      <<"url1", "url2", "url3">>))

getInitialNotes(locationSearch) ==
    GetAll(NewURLSearchParams(locationSearch), <<"note1", "note2", "note3">>)

-----------------------------------------------------------------------------
(* The comparison: canCompare, allSame, getDifferentParamKeys               *)

canCompare(maps) == Len(maps) > 1

\* allParams.every((p) => paramsEqual(p, allParams[0])) behind canCompare
allSame(maps) ==
    canCompare(maps) /\ \A i \in 1..Len(maps) : paramsEqual(maps[i], maps[1])

\* The Set allKeys: every key of every map.
allKeys(maps) ==
    UNION {{maps[i][j].k : j \in 1..Len(maps[i])} : i \in 1..Len(maps)}

\* keyExistsInAll looking at the first map only.
keyExistsInFirst(maps, key) == HasOwnProperty(maps[1], key)

keyExistsInAll(maps, key) == \A i \in 1..Len(maps) : HasOwnProperty(maps[i], key)

\* values.length > 1 && !values.every((v) => v === values[0])
hasValueDiff(maps, key) ==
    LET values == [i \in 1..Len(maps) |-> ObjGet(maps[i], key)]
    IN  Len(values) > 1 /\ ~(\A i \in 1..Len(values) : values[i] = values[1])

getDifferentParamKeys(maps) ==
    IF ~canCompare(maps) \/ allSame(maps)
    THEN [missing |-> {}, valueChanged |-> {}]
    ELSE [missing |-> {key \in allKeys(maps) : ~keyExistsInAll(maps, key)},
          valueChanged |-> {key \in allKeys(maps) :
                                /\ keyExistsInAll(maps, key)
                                /\ hasValueDiff(maps, key)}]

-----------------------------------------------------------------------------
(* App: the effects and the handlers                                        *)

MaxSlots == 3
MinSlots == 1

\* window.location.pathname of the page.
Pathname == "/"

RECURSIVE NatToString(_)
NatToString(n) ==
    IF n < 10 THEN CharAt("0123456789", n + 1)
    ELSE NatToString(n \div 10) \o CharAt("0123456789", (n % 10) + 1)

\* arr[i] for a 0-based i: <<>> is undefined.
ArrayAt(arr, i) == IF i + 1 \in 1..Len(arr) THEN <<arr[i + 1]>> ELSE <<>>

\* syncParams naming the keys by the 0-based index: url0, note0, ...
RECURSIVE syncParamsZeroBased(_, _, _, _)
syncParamsZeroBased(params, us, ns, i) ==
    IF i >= Len(us) THEN params
    ELSE LET url == us[i + 1]
             withUrl == IF url # ""
                        THEN ParamsSet(params, "url" \o NatToString(i), url)
                        ELSE params
             note == ArrayAt(ns, i)
             withNote == IF Len(note) = 1 /\ note[1] # ""
                         THEN ParamsSet(withUrl, "note" \o NatToString(i), note[1])
                         ELSE withUrl
         IN  syncParamsZeroBased(withNote, us, ns, i + 1)

\* The forEach of the sync effect from 0-based index i on.
RECURSIVE syncParams(_, _, _, _)
syncParams(params, us, ns, i) ==
    IF i >= Len(us) THEN params
    ELSE LET url == us[i + 1]
             withUrl == IF url # ""
                        THEN ParamsSet(params, "url" \o NatToString(i + 1), url)
                        ELSE params
             note == ArrayAt(ns, i)
             withNote == IF Len(note) = 1 /\ note[1] # ""
                         THEN ParamsSet(withUrl, "note" \o NatToString(i + 1), note[1])
                         ELSE withUrl
         IN  syncParams(withNote, us, ns, i + 1)

\* The sync effect starting from the parameters of the current address
\* instead of an empty URLSearchParams.
syncNewUrlOntoOld(us, ns) ==
    Pathname \o "?"
        \o ParamsToString(syncParams(NewURLSearchParams(search), us, ns, 0))

\* newUrl of the sync effect.
syncNewUrl(us, ns) ==
    Pathname \o "?" \o ParamsToString(syncParams(<<>>, us, ns, 0))

\* window.location.search after history.replaceState(null, "", newUrl): the
\* query of the new address, "" when it is empty.
LocationSearch(newUrl) ==
    LET q == IndexOf(newUrl, "?")
        query == IF q = 0 THEN "" ELSE QueryEncode(From(newUrl, q + 1), TRUE)
    IN  IF query = "" THEN "" ELSE "?" \o query

\* The updater of the notes length effect, n being urls.length.
syncNotesLength(prev, n) ==
    IF Len(prev) = n THEN prev
    ELSE IF Len(prev) < n THEN prev \o [i \in 1..(n - Len(prev)) |-> ""]
    ELSE SubSeq(prev, 1, n)

\* prev.map((u, i) => (i === idx ? value : u))
mapAt(prev, idx, value) ==
    [i \in 1..Len(prev) |-> IF i - 1 = idx THEN value ELSE prev[i]]

\* prev.filter((_, i) => i !== idx)
filterAt(prev, idx) ==
    LET kept == {i \in 1..Len(prev) : i - 1 # idx}
        at(n) == CHOOSE i \in kept : Cardinality({j \in kept : j < i}) = n - 1
    IN  [n \in 1..Cardinality(kept) |-> prev[at(n)]]

\* urls.map(parseUrl), the same in both branches of the parse effect
parseAll(us, sink) == [i \in 1..Len(us) |-> parseUrl(us[i], sink)]

-----------------------------------------------------------------------------
(* Specification SpecParse: parseUrl applied to one input string            *)

MaxPairs == 3

QueryKeys == {"a", "b", "9", "10", ProtoKey}
QueryVals == {"1", "2"}
UrlHeads == {"https://example.com", "http://e.co:80/p", "not a url", "e.co"}
Sinks == {"absent", "ok", "failing"}

PairLists(keys, vals, n) ==
    UNION {[1..m -> [k : keys, v : vals]] : m \in 0..n}

\* The text of a query: k=v pieces joined by "&".
RECURSIVE RawQuery(_)
RawQuery(list) ==
    IF Len(list) = 0 THEN ""
    ELSE list[1].k \o "=" \o list[1].v
         \o (IF Len(list) = 1 THEN "" ELSE "&" \o RawQuery(Tail(list)))

ParseInputs ==
    {h \o (IF Len(l) = 0 THEN "" ELSE "?" \o RawQuery(l)) :
        h \in UrlHeads, l \in PairLists(QueryKeys, QueryVals, MaxPairs)}

\* What the variables of the other specifications hold meanwhile.
AppIdle ==
    /\ urls = <<>> /\ notes = <<>> /\ parsed = <<>> /\ effects = {}
    /\ notesQ = <<>> /\ perf = FALSE
ParseIdle == raw = "" /\ result = NullResult
CompareIdle == allParams = <<>> /\ verdict = <<>>
CodecIdle == slots = <<>> /\ decoded = <<>>

InitParse ==
    /\ AppIdle /\ CompareIdle /\ CodecIdle
    /\ search = ""
    /\ analytics \in Sinks
    /\ raw \in ParseInputs
    /\ result = NullResult
    /\ pc = "call"

ParseCall ==
    /\ pc = "call"
    /\ result' = parseUrl(raw, analytics)
    /\ pc' = "returned"
    /\ UNCHANGED <<urls, notes, parsed, search, effects, notesQ, analytics,
                   perf, raw, allParams, verdict, slots, decoded>>

NextParse == ParseCall

SpecParse == InitParse /\ [][NextParse]_vars

\* The entries of the query of a parsed input, in the order the text has them.
QueryEntries(url) == FormParse(NewURL(url).query)

Returned == pc = "returned"

\* C4: for every input that parses as an absolute URL, Object.keys of the
\* params map of the result is in ascending lexicographic order.
C4_KeysAscending ==
    (Returned /\ result.kind = "record") =>
        \A i, j \in 1..Len(result.params) :
            i < j => LexLess(result.params[i].k, result.params[j].k)

\* C5: every key of the query is in the params map of the result with the
\* value of its last occurrence in the query.
C5_LastOccurrenceWins ==
    (Returned /\ result.kind = "record") =>
        LET es == QueryEntries(raw)
        IN  \A i \in 1..Len(es) :
                (\A j \in (i + 1)..Len(es) : es[j].k # es[i].k) =>
                    ObjGet(result.params, es[i].k) = <<es[i].v>>

\* C6: parseUrl returns a record or null, never an exception, and null for
\* every input that is no absolute URL (none with no protocol among them).
C6_NoExceptionEscapes ==
    Returned =>
        /\ result.kind \in {"record", "null"}
        /\ (~NewURL(raw).ok => result = NullResult)
        /\ (IndexOf(raw, ":") = 0 => result = NullResult)
        /\ (raw = "not a url" => result = NullResult)

C6_Witness ==
    Returned /\ raw = "not a url" /\ analytics = "failing" /\ result = NullResult

\* C7: the result of parseUrl is the one it returns with no analytics sink,
\* whatever the sink is and does.
C7_TelemetryNeutral ==
    Returned => result = parseUrl(raw, "absent")

-----------------------------------------------------------------------------
(* Specification SpecCompare: the comparison of up to MaxSlots maps         *)

MaxMapKeys == 2

CompareKeys == {"a", "b", "9"}
CompareVals == {"1", "2"}

\* The maps parseUrl builds from queries of at most MaxMapKeys entries.
CompareMaps ==
    {AssignAll(<<>>, SortEntries(l)) :
        l \in PairLists(CompareKeys, CompareVals, MaxMapKeys)}

InitCompare ==
    /\ AppIdle /\ ParseIdle /\ CodecIdle
    /\ search = ""
    /\ analytics = "absent"
    /\ allParams \in UNION {[1..n -> CompareMaps] : n \in 0..MaxSlots}
    /\ verdict = <<>>
    /\ pc = "compare"

Compare ==
    /\ pc = "compare"
    /\ verdict' = [allSame |-> allSame(allParams),
                   diff |-> getDifferentParamKeys(allParams)]
    /\ pc' = "compared"
    /\ UNCHANGED <<urls, notes, parsed, search, effects, notesQ, analytics,
                   perf, raw, result, allParams, slots, decoded>>

NextCompare == Compare

SpecCompare == InitCompare /\ [][NextCompare]_vars

KeySet(o) == {o[i].k : i \in 1..Len(o)}

ValueAt(o, key) == o[CHOOSE i \in 1..Len(o) : o[i].k = key].v

UnionKeys == UNION {KeySet(allParams[i]) : i \in 1..Len(allParams)}

InEvery(key) == \A i \in 1..Len(allParams) : key \in KeySet(allParams[i])

OneValue(key) ==
    \A i, j \in 1..Len(allParams) :
        ValueAt(allParams[i], key) = ValueAt(allParams[j], key)

Compared == pc = "compared" /\ Len(allParams) >= 2

\* C2: missing is exactly the keys of the union absent from some map,
\* valueChanged exactly the keys present in every map with two different
\* values; the sets are disjoint and a key present everywhere with one
\* value is in neither.
C2_Classification ==
    Compared =>
        /\ verdict.diff.missing = {key \in UnionKeys : ~InEvery(key)}
        /\ verdict.diff.valueChanged =
                {key \in UnionKeys : InEvery(key) /\ ~OneValue(key)}
        /\ verdict.diff.missing \cap verdict.diff.valueChanged = {}
        /\ \A key \in UnionKeys :
                (InEvery(key) /\ OneValue(key)) =>
                    key \notin verdict.diff.missing \cup verdict.diff.valueChanged

C2_Witness ==
    /\ Compared
    /\ Len(allParams) = MaxSlots
    /\ verdict.diff.missing # {}
    /\ verdict.diff.valueChanged # {}

\* C3: allSame is true exactly when all maps have the same key set and every
\* key has the same value in all of them.
C3_AllSameIffIdentical ==
    Compared =>
        (verdict.allSame <=>
            /\ \A i, j \in 1..Len(allParams) :
                    KeySet(allParams[i]) = KeySet(allParams[j])
            /\ \A key \in UnionKeys : OneValue(key))

C3_Witness ==
    /\ Compared
    /\ Len(allParams) = MaxSlots
    /\ verdict.allSame
    /\ Len(allParams[1]) = 2

-----------------------------------------------------------------------------
(* Specification SpecCodec: the sync effect's encoding of a slot list, and  *)
(* the decoding of a query string by getInitialUrls / getInitialNotes       *)

MaxLinkPairs == 2

CodecUrls == {"", "x", "https://e.co?b=2&a=1"}
CodecNotes == {"", "m", "n 1"}
SlotLists == UNION {[1..n -> [url : CodecUrls, note : CodecNotes]] : n \in MinSlots..MaxSlots}

UrlKeys == <<"url1", "url2", "url3">>
NoteKeys == <<"note1", "note2", "note3">>
LinkKeys == {UrlKeys[i] : i \in 1..3} \cup {NoteKeys[i] : i \in 1..3}
LinkVals == {"", "x", "a%26b+c"}

\* Query strings of links written by hand.
Links ==
    {IF Len(l) = 0 THEN "" ELSE "?" \o RawQuery(l) :
        l \in PairLists(LinkKeys, LinkVals, MaxLinkPairs)}

InitCodec ==
    /\ AppIdle /\ ParseIdle /\ CompareIdle
    /\ analytics = "absent"
    /\ decoded = <<>>
    /\ \/ slots \in SlotLists /\ search = "" /\ pc = "encode"
       \/ slots = <<>> /\ search \in Links /\ pc = "decode"

\* The sync effect run on the slot list.
Encode ==
    /\ pc = "encode"
    /\ search' = LocationSearch(syncNewUrl([i \in 1..Len(slots) |-> slots[i].url],
                                           [i \in 1..Len(slots) |-> slots[i].note]))
    /\ pc' = "decode"
    /\ UNCHANGED <<urls, notes, parsed, effects, notesQ, analytics, perf,
                   raw, result, allParams, verdict, slots, decoded>>

\* The useState initialisers of a page opened at that query string.
Decode ==
    /\ pc = "decode"
    /\ decoded' = [urls |-> getInitialUrls(search),
                   notes |-> getInitialNotes(search)]
    /\ pc' = "done"
    /\ UNCHANGED <<urls, notes, parsed, search, effects, notesQ, analytics,
                   perf, raw, result, allParams, verdict, slots>>

NextCodec == Encode \/ Decode

SpecCodec == InitCodec /\ [][NextCodec]_vars

WithUrl == {i \in 1..Len(slots) : slots[i].url # ""}
WithNote == {i \in 1..Len(slots) : slots[i].note # ""}

\* Position of slot i among the slots of set S.
RankIn(S, i) == Cardinality({j \in S : j <= i})

RoundTripped == pc = "done" /\ Len(slots) > 0

\* C1: decoding the encoding of a slot list yields every non-empty url and
\* every non-empty note at the relative position it had, and a url and a note
\* of one slot land in one slot again.
C1_RoundTrip ==
    RoundTripped =>
        /\ \A i \in WithUrl :
                /\ RankIn(WithUrl, i) <= Len(decoded.urls)
                /\ decoded.urls[RankIn(WithUrl, i)] = slots[i].url
        /\ \A i \in WithNote :
                /\ RankIn(WithNote, i) <= Len(decoded.notes)
                /\ decoded.notes[RankIn(WithNote, i)] = slots[i].note
        /\ \A i \in WithUrl \cap WithNote :
                RankIn(WithUrl, i) = RankIn(WithNote, i)

\* The mapping a query string denotes.
Written == NewURLSearchParams(search)

Encoded == pc \in {"decode", "done"} /\ Len(slots) > 0

\* C8: the mapping written by the sync effect has key url{i} exactly when
\* slot i has a non-empty url, and note{i} exactly when it has a non-empty
\* note, each with that value; no other key, no key twice, no empty value and
\* no index above 3.
C8_Encoding ==
    Encoded =>
        LET w == Written
            names == {"url" \o NatToString(i) : i \in 1..Len(slots)} \cup
                     {"note" \o NatToString(i) : i \in 1..Len(slots)}
        IN  /\ \A i \in 1..Len(slots) :
                    /\ ParamsGet(w, "url" \o NatToString(i)) =
                            (IF slots[i].url # "" THEN <<slots[i].url>> ELSE <<>>)
                    /\ ParamsGet(w, "note" \o NatToString(i)) =
                            (IF slots[i].note # "" THEN <<slots[i].note>> ELSE <<>>)
            /\ \A p \in 1..Len(w) :
                    /\ w[p].k \in names
                    /\ w[p].k \in LinkKeys
                    /\ w[p].v # ""
                    /\ \A q \in 1..Len(w) : p # q => w[p].k # w[q].k

C8_Witness ==
    /\ Encoded
    /\ slots = <<[url |-> "https://e.co?b=2&a=1", note |-> ""],
                 [url |-> "", note |-> ""]>>
    /\ search = "?url1=https%3A%2F%2Fe.co%3Fb%3D2%26a%3D1"

Decoded == pc = "done"

\* The keys among url1..url3, in that order, that the query string has.
PresentUrlKeys ==
    SelectSeq(UrlKeys, LAMBDA key : Len(ParamsGet(Written, key)) = 1)

\* Those of them whose first value is not empty.
NonEmptyUrlKeys ==
    SelectSeq(PresentUrlKeys, LAMBDA key : ParamsGet(Written, key)[1] # "")

SlotsFrom(keys) ==
    IF Len(keys) = 0 THEN <<"">>
    ELSE [j \in 1..Len(keys) |-> ParamsGet(Written, keys[j])[1]]

\* C9 as stated: every key among url1..url3 present in the query string, an
\* empty value included, becomes one slot, in that order; one empty slot
\* when none is present.
C9_EveryPresentKey ==
    Decoded => decoded.urls = SlotsFrom(PresentUrlKeys)

\* C9 amended: every key among url1..url3 present with a non-empty value
\* becomes one slot, in that order; a key absent or with an empty value
\* gives none; one empty slot when no key has a non-empty value.
C9_EveryNonEmptyKey ==
    Decoded =>
        /\ decoded.urls = SlotsFrom(NonEmptyUrlKeys)
        /\ Len(decoded.urls) >= 1

C9_Witness ==
    /\ Decoded
    /\ search = "?url1=&url3=a%26b+c"
    /\ decoded.urls = <<"a&b c">>

-----------------------------------------------------------------------------
(* Specification Spec: the App component                                    *)
(* A handler runs to its end and React commits the new state before the    *)
(* next event; the effects of a commit then run in the order the component *)
(* declares them; a state update an effect queues is committed after them. *)

EditUrls == {"", "x", "https://e.co?b=2&a=1"}
EditNotes == {"", "x"}
StartVals == {"", "x"}

\* The query strings the page may be opened at.
StartSearches ==
    {IF Len(l) = 0 THEN "" ELSE "?" \o RawQuery(l) :
        l \in PairLists(LinkKeys, StartVals, MaxLinkPairs)}

Settled == effects = {} /\ notesQ = <<>>

HarnessIdle == ParseIdle /\ CompareIdle /\ CodecIdle

Init ==
    /\ HarnessIdle
    /\ search \in StartSearches
    /\ analytics \in Sinks
    /\ perf \in BOOLEAN
    /\ urls = getInitialUrls(search)
    /\ notes = getInitialNotes(search)
    /\ parsed = <<>>
    /\ effects = {"parse", "notesLength", "sync"}
    /\ notesQ = <<>>
    /\ pc = "mounted"

\* useEffect(..., [urls]): setParsed(urls.map(parseUrl)), inside the trace
\* when perf is set.
ParseEffect ==
    /\ "parse" \in effects
    /\ parsed' = (IF perf THEN parseAll(urls, analytics)
                  ELSE parseAll(urls, analytics))
    /\ effects' = effects \ {"parse"}
    /\ UNCHANGED <<urls, notes, search, notesQ, analytics, perf,
                   raw, result, allParams, verdict, slots, decoded, pc>>

\* useEffect(..., [urls.length]): setNotes queues the updater.
NotesLengthEffect ==
    /\ "notesLength" \in effects
    /\ "parse" \notin effects
    /\ notesQ' = <<Len(urls)>>
    /\ effects' = effects \ {"notesLength"}
    /\ UNCHANGED <<urls, notes, parsed, search, analytics, perf,
                   raw, result, allParams, verdict, slots, decoded, pc>>

\* useEffect(..., [urls, notes]): history.replaceState with the encoding.
SyncEffect ==
    /\ effects = {"sync"}
    /\ search' = LocationSearch(syncNewUrl(urls, notes))
    /\ effects' = {}
    /\ UNCHANGED <<urls, notes, parsed, notesQ, analytics, perf,
                   raw, result, allParams, verdict, slots, decoded, pc>>

\* The commit of the update queued by the notes length effect: an updater
\* that returns prev changes nothing and no effect runs again.
CommitNotes ==
    /\ effects = {}
    /\ notesQ # <<>>
    /\ notes' = syncNotesLength(notes, notesQ[1])
    /\ notesQ' = <<>>
    /\ effects' = (IF notes' # notes THEN {"sync"} ELSE {})
    /\ UNCHANGED <<urls, parsed, search, analytics, perf,
                   raw, result, allParams, verdict, slots, decoded, pc>>

handleChange ==
    /\ Settled
    /\ \E idx \in 0..(Len(urls) - 1), value \in EditUrls :
            urls' = mapAt(urls, idx, value)
    /\ effects' = {"parse", "sync"}
    /\ pc' = "handleChange"
    /\ UNCHANGED <<notes, parsed, search, notesQ, analytics, perf,
                   raw, result, allParams, verdict, slots, decoded>>

handleNoteChange ==
    /\ Settled
    /\ \E idx \in 0..(Len(urls) - 1), value \in EditNotes :
            notes' = mapAt(notes, idx, value)
    /\ effects' = {"sync"}
    /\ pc' = "handleNoteChange"
    /\ UNCHANGED <<urls, parsed, search, notesQ, analytics, perf,
                   raw, result, allParams, verdict, slots, decoded>>

\* handleAdd with the test of urls.length lost.
handleAddUnguarded ==
    /\ Settled
    /\ urls' = Append(urls, "")
    /\ notes' = Append(notes, "")
    /\ effects' = {"parse", "notesLength", "sync"}
    /\ pc' = "handleAdd"
    /\ UNCHANGED <<parsed, search, notesQ, analytics, perf,
                   raw, result, allParams, verdict, slots, decoded>>

handleAdd ==
    /\ Settled
    /\ IF Len(urls) < MaxSlots
       THEN /\ urls' = Append(urls, "")
            /\ notes' = Append(notes, "")
            /\ effects' = {"parse", "notesLength", "sync"}
            /\ pc' = "handleAdd"
       ELSE /\ UNCHANGED <<urls, notes, effects>>
            /\ pc' = "handleAdd ignored"
    /\ UNCHANGED <<parsed, search, notesQ, analytics, perf,
                   raw, result, allParams, verdict, slots, decoded>>

\* handleRemove with the setNotes call lost: the notes length effect then
\* cuts the last note off.
handleRemoveUrlOnly ==
    /\ Settled
    /\ \E idx \in 0..(Len(urls) - 1) :
        IF Len(urls) > MinSlots
        THEN /\ urls' = filterAt(urls, idx)
             /\ notes' = notes
             /\ effects' = {"parse", "notesLength", "sync"}
             /\ pc' = "handleRemove"
        ELSE /\ UNCHANGED <<urls, notes, effects>>
             /\ pc' = "handleRemove ignored"
    /\ UNCHANGED <<parsed, search, notesQ, analytics, perf,
                   raw, result, allParams, verdict, slots, decoded>>

handleRemove ==
    /\ Settled
    /\ \E idx \in 0..(Len(urls) - 1) :
        IF Len(urls) > MinSlots
        THEN /\ urls' = filterAt(urls, idx)
             /\ notes' = filterAt(notes, idx)
             /\ effects' = {"parse", "notesLength", "sync"}
             /\ pc' = "handleRemove"
        ELSE /\ UNCHANGED <<urls, notes, effects>>
             /\ pc' = "handleRemove ignored"
    /\ UNCHANGED <<parsed, search, notesQ, analytics, perf,
                   raw, result, allParams, verdict, slots, decoded>>

Next ==
    \/ ParseEffect
    \/ NotesLengthEffect
    \/ SyncEffect
    \/ CommitNotes
    \/ handleChange
    \/ handleNoteChange
    \/ handleAdd
    \/ handleRemove

Spec == Init /\ [][Next]_vars

\* C10: the number of url slots is at least 1 and at most 3 in every state.
C10_SlotCount == Len(urls) >= 1 /\ Len(urls) <= 3

C10_Witness ==
    /\ pc = "handleAdd ignored"
    /\ Len(urls) = 3
    /\ Settled

-----------------------------------------------------------------------------
(* The query string and the slot lists                                      *)

\* What the parse effect and the sync effect do to the set of pending
\* effects, with their conditions; no other step of Next does the same.
ParseDue == "parse" \in effects /\ effects' = effects \ {"parse"}

SyncDue == effects = {"sync"} /\ effects' = {}

\* The effects of a commit run without waiting for any event, and so does
\* the commit of an update an effect queued.
SpecLive ==
    /\ Init
    /\ [][Next]_vars
    /\ WF_effects(ParseDue)
    /\ WF_effects(NotesLengthEffect)
    /\ WF_effects(SyncDue)
    /\ WF_notesQ(CommitNotes)

\* The note of the slot at 1-based position i, "" when notes is shorter.
NoteOf(i) == IF i <= Len(notes) THEN notes[i] ELSE ""

\* The query string denotes the encoding of urls and notes: url{i} exactly
\* for a non-empty url of slot i, note{i} exactly for a non-empty note, each
\* with that value, and no other key.
SearchFollows ==
    LET w == Written
        names == {"url" \o NatToString(i) : i \in 1..Len(urls)} \cup
                 {"note" \o NatToString(i) : i \in 1..Len(urls)}
    IN  /\ \A i \in 1..Len(urls) :
                /\ ParamsGet(w, "url" \o NatToString(i)) =
                        (IF urls[i] # "" THEN <<urls[i]>> ELSE <<>>)
                /\ ParamsGet(w, "note" \o NatToString(i)) =
                        (IF NoteOf(i) # "" THEN <<NoteOf(i)>> ELSE <<>>)
        /\ \A p \in 1..Len(w) :
                /\ w[p].k \in names
                /\ \A q \in 1..Len(w) : p # q => w[p].k # w[q].k
        /\ search = (IF Len(w) = 0 THEN "" ELSE "?" \o ParamsToString(w))

\* A step that rewrites the query string leaves urls and notes alone; urls
\* changes only in a handler, notes only in a handler or in the commit of
\* the notes length updater, which computes it from the old notes.
NeverReloaded ==
    /\ search' # search => UNCHANGED <<urls, notes>>
    /\ urls' # urls => Settled
    /\ notes' # notes =>
            \/ Settled
            \/ notesQ # <<>> /\ notes' = syncNotesLength(notes, Len(urls))

\* C11: in every state with no effect pending the query string is the
\* encoding of the current urls and notes, from every state with effects
\* pending such a state is reached, and no step reads urls or notes back
\* from the query string.
C11_SearchFollowsEdits ==
    /\ [](Settled => SearchFollows)
    /\ (~Settled ~> (Settled /\ SearchFollows))
    /\ [][NeverReloaded]_vars
    /\ [][(ParseDue <=> ParseEffect) /\ (SyncDue <=> SyncEffect)]_vars

\* After a removal the third slot's keys are gone, and reading the query
\* string again would not give back the slot lists.
C11_Witness ==
    /\ Settled
    /\ pc = "handleRemove"
    /\ urls = <<"", "x">>
    /\ notes = <<"", "x">>
    /\ search = "?url2=x&note2=x"
    /\ getInitialUrls(search) # urls

-----------------------------------------------------------------------------
(* The handlers and the pairing of urls and notes                           *)

\* after is before without its element at 1-based position p.
Without(before, after, p) ==
    /\ Len(after) = Len(before) - 1
    /\ \A i \in 1..Len(after) :
            after[i] = (IF i < p THEN before[i] ELSE before[i + 1])

\* after is before but for its element at 1-based position p.
SameButAt(before, after, p) ==
    /\ Len(after) = Len(before)
    /\ \A i \in 1..Len(before) : i # p => after[i] = before[i]

\* A step a handler takes: handlers run in settled states only.
HandlerStep(name) == Settled /\ pc' = name

RemoveFrame ==
    HandlerStep("handleRemove") =>
        /\ Len(urls) > 1
        /\ \E p \in 1..Len(urls) :
                /\ Without(urls, urls', p)
                /\ Without(notes, notes', p)
        /\ Len(notes') = Len(urls')

ChangeFrame ==
    HandlerStep("handleChange") =>
        /\ notes' = notes
        /\ \E p \in 1..Len(urls) : SameButAt(urls, urls', p)

NoteChangeFrame ==
    HandlerStep("handleNoteChange") =>
        /\ urls' = urls
        /\ \E p \in 1..Len(notes) : SameButAt(notes, notes', p)

\* C12: handleRemove takes one position out of urls and the same position
\* out of notes, leaving the other pairs as they were and in their order,
\* and the two lists equally long, also once its effects have run;
\* handleChange changes at most one url and no note; handleNoteChange
\* changes at most one note and no url.
C12_HandlersKeepPairs ==
    /\ [][RemoveFrame /\ ChangeFrame /\ NoteChangeFrame]_vars
    /\ [](pc = "handleRemove" => Len(notes) = Len(urls))
    /\ [][pc = "handleRemove" /\ ~Settled => UNCHANGED <<urls, notes>>]_vars

\* Just after a removal from three slots that left the pairs ("", "x") and
\* ("x", ""), whose notes differ from each other.
C12_Witness ==
    /\ pc = "handleRemove"
    /\ effects = {"parse", "notesLength", "sync"}
    /\ urls = <<"", "x">>
    /\ notes = <<"x", "">>

====
